---- MODULE Spec2Model ----
(***************************************************************************)
(* time-of-day-wallpapers: the light classifier (src/main.rs), the         *)
(* wallpaper selection of main (src/main.rs) and the During deserializer   *)
(* (src/config.rs).                                                        *)
(*                                                                         *)
(* Angles are integers in quarter degrees (0.25 is the finest literal of   *)
(* the source), so every f64 operation of the source on the modelled       *)
(* inputs is exact.  An f64 read from the configuration keeps its sign bit *)
(* ([s, m]: sign and magnitude) because f64::signum tells 0.0 from -0.0.   *)
(***************************************************************************)
EXTENDS Integers, Sequences, FiniteSets

VARIABLES pc, config, wallpapers, pos, light, wallpaper, applied,
          seq_read, visitor, during

vars == <<pc, config, wallpapers, pos, light, wallpaper, applied,
          seq_read, visitor, during>>

(* ------------------------------ bounds -------------------------------- *)

\* longest wallpaper list of a configuration
MaxWallpapers == 3
\* longest During sequence the deserializer is fed
MaxTokens == 4
\* the classifier's inputs reach 90 degrees past MaxTurns full turns
MaxTurns == 1

(* ------------------------------ numbers ------------------------------- *)

Deg(d) == 4 * d

F64(s, d) == [s |-> s, m |-> Deg(d)]

Val(f) == f.s * f.m

\* f % 360.0: the remainder keeps the sign of the dividend (also of a zero)
Rem360(f) == [s |-> f.s, m |-> f.m % Deg(360)]

\* f64::signum: 1.0 for +0.0 and above, -1.0 for -0.0 and below
Signum(f) == f.s

Range(a, b) == [start |-> a, end |-> b]

\* Range<f64>::contains
Contains(range, x) == range.start <= x /\ x < range.end

AnyContains(ranges, x) == \E k \in 1..Len(ranges) : Contains(ranges[k], x)

Min(S) == CHOOSE x \in S : \A y \in S : x <= y

(* ------------------------- the light classifier ----------------------- *)

Light == {"AstronomicalDawn", "NauticalDawn", "CivilDawn", "Day",
          "CivilDusk", "NauticalDusk", "AstronomicalDusk", "Night"}

ALL == <<"Day", "Night", "AstronomicalTwilight", "NauticalTwilight", "CivilTwilight">>

\* altitude_bounds with the upper end of Night slipped to the next threshold
altitude_bounds_night_to_nautical(g) ==
    CASE g = "Day" -> <<Range(-1, 0), Range(0, Deg(360))>>
      [] g = "AstronomicalTwilight" -> <<Range(Deg(-18), Deg(-12))>>
      [] g = "NauticalTwilight" -> <<Range(Deg(-12), Deg(-6))>>
      [] g = "CivilTwilight" -> <<Range(Deg(-6), -1)>>
      [] g = "Night" -> <<Range(Deg(-360), Deg(-12))>>

\* LightGeneric::altitude_bounds; -0.25 degrees is -1
altitude_bounds(g) ==
    CASE g = "Day" -> <<Range(-1, 0), Range(0, Deg(360))>>
      [] g = "AstronomicalTwilight" -> <<Range(Deg(-18), Deg(-12))>>
      [] g = "NauticalTwilight" -> <<Range(Deg(-12), Deg(-6))>>
      [] g = "CivilTwilight" -> <<Range(Deg(-6), -1)>>
      [] g = "Night" -> <<Range(Deg(-360), Deg(-18))>>

to_specific(g, azimuth) ==
    CASE g = "Day" -> "Day"
      [] g = "Night" -> "Night"
      [] g = "AstronomicalTwilight" ->
            IF azimuth < Deg(180) THEN "AstronomicalDawn" ELSE "AstronomicalDusk"
      [] g = "NauticalTwilight" ->
            IF azimuth < Deg(180) THEN "NauticalDawn" ELSE "NauticalDusk"
      [] g = "CivilTwilight" ->
            IF azimuth < Deg(180) THEN "CivilDawn" ELSE "CivilDusk"

Elevation(p) == Deg(90) - p.zenith_angle

\* Light::from(SolarPos): the first generic light of ALL one of whose bounds
\* contains the elevation; "unreachable" is the unreachable!() after the loop
LightFrom(p) ==
    LET hits == {i \in 1..Len(ALL) : AnyContains(altitude_bounds(ALL[i]), Elevation(p))}
    IN  IF hits = {} THEN "unreachable" ELSE to_specific(ALL[Min(hits)], p.azimuth)

(* ------------------------ the During deserializer --------------------- *)

TokF(s, d) == [kind |-> "F64", f |-> F64(s, d), light |-> "-"]
TokL(l) == [kind |-> "Light", f |-> F64(1, 0), light |-> l]
TokInvalid == [kind |-> "Invalid", f |-> F64(1, 0), light |-> "-"]

Lights(v) == [tag |-> "Lights", lights |-> v, rising |-> <<>>, setting |-> <<>>]
ElevationOf(r, s) == [tag |-> "Elevation", lights |-> <<>>, rising |-> r, setting |-> s]
LightsAndElevation(v, r, s) ==
    [tag |-> "LightsAndElevation", lights |-> v, rising |-> r, setting |-> s]
Any == [tag |-> "Any", lights |-> <<>>, rising |-> <<>>, setting |-> <<>>]
DeError == [tag |-> "Error", lights |-> <<>>, rising |-> <<>>, setting |-> <<>>]

\* the locals of visit_seq before its loop
NewVisitor == [vec |-> <<>>, rising_ranges |-> <<>>, setting_ranges |-> <<>>, p1 |-> <<>>]

\* a light name that also takes the buffered number away
VisitLightTakesP1(v, l) == [v EXCEPT !.vec = Append(@, l), !.p1 = <<>>]

\* F64OrLight::Light(light) => vec.push(light)
VisitLight(v, l) == [v EXCEPT !.vec = Append(@, l)]

\* a pair compared as reduced, without re-centering
RecenterNone(rising, first, second) == <<first, second>>

\* the re-centering of a pair: <<first, second>> as the comparison reads them.
\* In the setting half both tests add to first; second is never changed.
Recenter(rising, first, second) ==
    IF rising
    THEN <<IF first > Deg(180) THEN first - Deg(360) ELSE first,
           IF second > Deg(180) THEN second - Deg(360) ELSE second>>
    ELSE <<(IF first < Deg(-180) THEN first + Deg(360) ELSE first)
             + (IF second < Deg(-180) THEN Deg(360) ELSE 0),
           second>>

\* the ranges one re-centered pair pushes
Emit(first, second) ==
    IF first > second
    THEN (IF first # Deg(360) THEN <<Range(0, first)>> ELSE <<>>)
         \o (IF second # 0 THEN <<Range(second, 0)>> ELSE <<>>)
    ELSE <<Range(first, second)>>

\* what the pair (p1, f) pushes, and to which list
PairRanges(first, f) ==
    LET second == Rem360(f)
        rising == Signum(first) = 1
        c == Recenter(rising, Val(first), Val(second))
    IN  IF Signum(first) # Signum(second)
        THEN [rising |-> <<>>, setting |-> <<>>]
        ELSE IF rising
             THEN [rising |-> Emit(c[1], c[2]), setting |-> <<>>]
             ELSE [rising |-> <<>>, setting |-> Emit(c[1], c[2])]

\* F64OrLight::F64(f) => ...
VisitF64(v, f) ==
    IF v.p1 = <<>>
    THEN [v EXCEPT !.p1 = <<Rem360(f)>>]
    ELSE LET pushed == PairRanges(v.p1[1], f)
         IN  [v EXCEPT !.p1 = <<>>,
                       !.rising_ranges = @ \o pushed.rising,
                       !.setting_ranges = @ \o pushed.setting]

\* the variant chosen after the loop
Finish(v) ==
    LET has_lights == v.vec # <<>>
        has_elevations == v.rising_ranges # <<>>
    IN  IF has_lights /\ has_elevations
        THEN LightsAndElevation(v.vec, v.rising_ranges, v.setting_ranges)
        ELSE IF has_lights THEN Lights(v.vec)
        ELSE IF has_elevations THEN ElevationOf(v.rising_ranges, v.setting_ranges)
        ELSE Lights(v.vec)

VisitToken(v, t) ==
    IF t.kind = "Light" THEN VisitLight(v, t.light) ELSE VisitF64(v, t.f)

RECURSIVE FoldTokens(_, _)
FoldTokens(v, tokens) ==
    IF tokens = <<>> THEN v
    ELSE FoldTokens(VisitToken(v, Head(tokens)), Tail(tokens))

\* visit_seq on a whole sequence
VisitSeq(tokens) ==
    IF \E k \in 1..Len(tokens) : tokens[k].kind = "Invalid"
    THEN DeError
    ELSE Finish(FoldTokens(NewVisitor, tokens))

\* the serde names of Light
LightNames == {"astronomical dawn", "nautical dawn", "civil dawn", "day",
               "civil dusk", "nautical dusk", "astronomical dusk", "night"}

LightOfName(s) ==
    CASE s = "astronomical dawn" -> "AstronomicalDawn"
      [] s = "nautical dawn" -> "NauticalDawn"
      [] s = "civil dawn" -> "CivilDawn"
      [] s = "day" -> "Day"
      [] s = "civil dusk" -> "CivilDusk"
      [] s = "nautical dusk" -> "NauticalDusk"
      [] s = "astronomical dusk" -> "AstronomicalDusk"
      [] s = "night" -> "Night"

\* visit_str
VisitStr(s) ==
    IF s = "any" THEN Any
    ELSE IF s \in LightNames THEN Lights(<<LightOfName(s)>>)
    ELSE DeError

\* During::deserialize: deserialize_any dispatches on the shape of the value
Deserialize(raw) ==
    IF raw.shape = "str" THEN VisitStr(raw.str) ELSE VisitSeq(raw.seq)

RawStr(s) == [shape |-> "str", str |-> s, seq |-> <<>>]
RawSeq(q) == [shape |-> "seq", str |-> "", seq |-> q]

(* ------------------------- wallpaper selection ------------------------ *)

\* the closure of the first find of main
Matches(d, l, elevation, azimuth) ==
    CASE d.tag = "Lights" -> \E k \in 1..Len(d.lights) : d.lights[k] = l
      [] d.tag = "Elevation" ->
            \/ (azimuth < Deg(180) /\ AnyContains(d.rising, elevation))
            \/ (azimuth > Deg(180) /\ AnyContains(d.setting, elevation))
      [] d.tag = "LightsAndElevation" ->
            \/ \E k \in 1..Len(d.lights) : d.lights[k] = l
            \/ (azimuth < Deg(180) /\ AnyContains(d.rising, elevation))
            \/ (azimuth > Deg(180) /\ AnyContains(d.setting, elevation))
      [] d.tag = "Any" -> FALSE

\* During::is_any
is_any(d) == d.tag = "Any"

\* Iterator::find: the index of the first element of S, 0 for None
Find(S) == IF S = {} THEN 0 ELSE Min(S)

\* a single scan in which an Any entry matches like any other
SelectSinglePass(wps, l, elevation, azimuth) ==
    Find({i \in 1..Len(wps) :
            is_any(wps[i]) \/ Matches(wps[i], l, elevation, azimuth)})

\* a scan without the fallback to an Any entry
SelectNoFallback(wps, l, elevation, azimuth) ==
    Find({i \in 1..Len(wps) : Matches(wps[i], l, elevation, azimuth)})

\* find(...).or_else(|| find(is_any)): the index of the wallpaper, 0 for None
Select(wps, l, elevation, azimuth) ==
    LET found == Find({i \in 1..Len(wps) : Matches(wps[i], l, elevation, azimuth)})
    IN  IF found # 0 THEN found
        ELSE Find({i \in 1..Len(wps) : is_any(wps[i])})

(* ------------------------------ inputs -------------------------------- *)

\* the values of `during` a configuration file is given
RawDurings ==
    { RawStr("any"),
      RawStr("day"),
      RawStr("noon"),
      RawSeq(<<>>),
      RawSeq(<<TokF(1, 340), TokF(1, 15), TokF(-1, 340), TokF(-1, 10)>>),
      RawSeq(<<TokL("Day"), TokF(1, 340), TokF(1, 15), TokF(-1, 340), TokF(-1, 10)>>) }

RawLists == UNION {[1..n -> RawDurings] : n \in 0..MaxWallpapers}

\* azimuths around the split at 180 degrees
Azimuths == {Deg(90), Deg(180) - 1, Deg(180), Deg(180) + 1, Deg(270)}

\* elevations the sun can have: 90 - zenith_angle, zenith_angle in [0, 180]
SunElevations ==
    {Deg(-90), Deg(-25), Deg(-15), Deg(-5), -1, 0, Deg(10), Deg(15), Deg(20), Deg(90)}

SunPositions ==
    [zenith_angle : {Deg(90) - e : e \in SunElevations}, azimuth : Azimuths]

\* every SolarPos value handed to Light::from, in steps of 0.25 degrees
LightElevations == (-Deg(360 * MaxTurns + 90))..Deg(360 * MaxTurns + 90)

LightPositions ==
    [zenith_angle : {Deg(90) - e : e \in LightElevations}, azimuth : Azimuths]

\* the elements of a During sequence
LightTokens == {"Day", "Night"}

F64Tokens == {F64(1, 340), F64(1, 15), F64(-1, 345), F64(-1, 20),
              F64(1, 10), F64(1, 20), F64(1, 30), F64(1, 0), F64(-1, 360),
              F64(1, 200)}

StrInputs == {"any", "day", "civil dusk", "noon"}

NoPos == [zenith_angle |-> 0, azimuth |-> 0]

(* --------------------------- main: actions ---------------------------- *)

Init ==
    /\ pc = "load"
    /\ config \in RawLists
    /\ wallpapers = <<>>
    /\ pos = NoPos
    /\ light = "-"
    /\ wallpaper = 0
    /\ applied = 0
    /\ seq_read = <<>>
    /\ visitor = NewVisitor
    /\ during = DeError

\* toml::from_str(&config): every wallpaper's during is deserialized
LoadConfig ==
    /\ pc = "load"
    /\ \A i \in 1..Len(config) : Deserialize(config[i]) # DeError
    /\ wallpapers' = [i \in 1..Len(config) |-> Deserialize(config[i])]
    /\ pc' = "solar_position"
    /\ UNCHANGED <<config, pos, light, wallpaper, applied, seq_read, visitor, during>>

LoadConfigFails ==
    /\ pc = "load"
    /\ \E i \in 1..Len(config) : Deserialize(config[i]) = DeError
    /\ pc' = "error_config"
    /\ UNCHANGED <<config, wallpapers, pos, light, wallpaper, applied, seq_read,
                   visitor, during>>

\* spa::solar_position(now, latitude, longitude)
SolarPosition ==
    /\ pc = "solar_position"
    /\ \E p \in SunPositions : pos' = p
    /\ pc' = "from"
    /\ UNCHANGED <<config, wallpapers, light, wallpaper, applied, seq_read, visitor,
                   during>>

SolarPositionFails ==
    /\ pc = "solar_position"
    /\ pc' = "error_position"
    /\ UNCHANGED <<config, wallpapers, pos, light, wallpaper, applied, seq_read,
                   visitor, during>>

\* Light::from(pos)
FromSolarPos ==
    /\ pc = "from"
    /\ light' = LightFrom(pos)
    /\ pc' = IF LightFrom(pos) = "unreachable" THEN "panic" ELSE "classified"
    /\ UNCHANGED <<config, wallpapers, pos, wallpaper, applied, seq_read, visitor,
                   during>>

\* the selection of main, and the ? on its result
SelectWallpaper ==
    /\ pc = "classified"
    /\ wallpaper' = Select(wallpapers, light, Elevation(pos), pos.azimuth)
    /\ pc' = IF wallpaper' = 0 THEN "error_no_wallpaper" ELSE "apply"
    /\ UNCHANGED <<config, wallpapers, pos, light, applied, seq_read, visitor, during>>

\* the script evaluated over D-Bus writes the path of the selected wallpaper
ApplyWallpaper ==
    /\ pc = "apply"
    /\ applied' = wallpaper
    /\ pc' = "done"
    /\ UNCHANGED <<config, wallpapers, pos, light, wallpaper, seq_read, visitor, during>>

ApplyFails ==
    /\ pc = "apply"
    /\ pc' = "error_dbus"
    /\ UNCHANGED <<config, wallpapers, pos, light, wallpaper, applied, seq_read,
                   visitor, during>>

Next ==
    \/ LoadConfig
    \/ LoadConfigFails
    \/ SolarPosition
    \/ SolarPositionFails
    \/ FromSolarPos
    \/ SelectWallpaper
    \/ ApplyWallpaper
    \/ ApplyFails

Spec == Init /\ [][Next]_vars

(* ------------------- Light::from over all its inputs ------------------ *)

InitLight ==
    /\ pc = "from"
    /\ config = <<>>
    /\ wallpapers = <<>>
    /\ pos \in LightPositions
    /\ light = "-"
    /\ wallpaper = 0
    /\ applied = 0
    /\ seq_read = <<>>
    /\ visitor = NewVisitor
    /\ during = DeError

NextLight == FromSolarPos

SpecLight == InitLight /\ [][NextLight]_vars

(* ---------------- During::deserialize, element by element ------------- *)

InitDuring ==
    /\ pc = "deserialize"
    /\ config = <<>>
    /\ wallpapers = <<>>
    /\ pos = NoPos
    /\ light = "-"
    /\ wallpaper = 0
    /\ applied = 0
    /\ seq_read = <<>>
    /\ visitor = NewVisitor
    /\ during = DeError

\* a string value: visit_str
DeserializeStr ==
    /\ pc = "deserialize"
    /\ \E s \in StrInputs :
          /\ during' = VisitStr(s)
          /\ pc' = IF VisitStr(s) = DeError THEN "de_error" ELSE "str_done"
    /\ UNCHANGED <<config, wallpapers, pos, light, wallpaper, applied, seq_read, visitor>>

\* seq.next_element() yields a light name
NextElementLight ==
    /\ pc \in {"deserialize", "visit_seq"}
    /\ Len(seq_read) < MaxTokens
    /\ \E l \in LightTokens :
          /\ seq_read' = Append(seq_read, TokL(l))
          /\ visitor' = VisitLight(visitor, l)
    /\ pc' = "visit_seq"
    /\ UNCHANGED <<config, wallpapers, pos, light, wallpaper, applied, during>>

\* seq.next_element() yields a number
NextElementF64 ==
    /\ pc \in {"deserialize", "visit_seq"}
    /\ Len(seq_read) < MaxTokens
    /\ \E f \in F64Tokens :
          /\ seq_read' = Append(seq_read, [kind |-> "F64", f |-> f, light |-> "-"])
          /\ visitor' = VisitF64(visitor, f)
    /\ pc' = "visit_seq"
    /\ UNCHANGED <<config, wallpapers, pos, light, wallpaper, applied, during>>

\* seq.next_element() fails: the element is neither a number nor a light name
NextElementInvalid ==
    /\ pc \in {"deserialize", "visit_seq"}
    /\ Len(seq_read) < MaxTokens
    /\ seq_read' = Append(seq_read, TokInvalid)
    /\ pc' = "de_error"
    /\ UNCHANGED <<config, wallpapers, pos, light, wallpaper, applied, visitor, during>>

\* seq.next_element() yields None: the variant is chosen
EndOfSeq ==
    /\ pc \in {"deserialize", "visit_seq"}
    /\ during' = Finish(visitor)
    /\ pc' = "seq_done"
    /\ UNCHANGED <<config, wallpapers, pos, light, wallpaper, applied, seq_read, visitor>>

NextDuring ==
    \/ DeserializeStr
    \/ NextElementLight
    \/ NextElementF64
    \/ NextElementInvalid
    \/ EndOfSeq

SpecDuring == InitDuring /\ [][NextDuring]_vars

(* =============================== claims =============================== *)

AfterSelect == {"apply", "error_no_wallpaper", "done", "error_dbus"}

\* the entries that are not Any and are satisfied at the current instant
Satisfied ==
    {i \in 1..Len(wallpapers) :
        /\ wallpapers[i].tag # "Any"
        /\ Matches(wallpapers[i], light, Elevation(pos), pos.azimuth)}

AnyEntries == {i \in 1..Len(wallpapers) : wallpapers[i].tag = "Any"}

\* C1: selection is two-pass.  Once the selection has run: if some entry that
\* is not Any is satisfied, the selected wallpaper is the first such entry in
\* list order, whatever Any entries stand before it; and when the selected
\* wallpaper is an Any entry, no other entry is satisfied and it is the first
\* Any entry of the list.
C1_TwoPassSelection ==
    pc \in AfterSelect =>
        /\ Satisfied # {} => wallpaper = Min(Satisfied)
        /\ (wallpaper # 0 /\ wallpapers[wallpaper].tag = "Any") =>
                (Satisfied = {} /\ wallpaper = Min(AnyEntries))

\* an Any entry stands first and a later, satisfied entry is selected
C1_Witness ==
    /\ pc = "apply"
    /\ Len(wallpapers) >= 2
    /\ wallpapers[1].tag = "Any"
    /\ wallpaper > 1
    /\ wallpapers[wallpaper].tag # "Any"

\* C2: the selection fails with "no configured wallpaper" exactly when no
\* entry that is not Any is satisfied and the list holds no Any entry; then
\* no wallpaper is applied.  In every other case an entry of the configured
\* list is selected, and only the selected entry is ever applied.
C2_NoMatchError ==
    pc \in AfterSelect =>
        /\ (pc = "error_no_wallpaper") <=> (Satisfied = {} /\ AnyEntries = {})
        /\ pc = "error_no_wallpaper" => (wallpaper = 0 /\ applied = 0)
        /\ pc # "error_no_wallpaper" => wallpaper \in 1..Len(wallpapers)
        /\ applied # 0 => applied = wallpaper

\* the only entry is an empty Lights set and the selection has failed
C2_Witness ==
    /\ pc = "error_no_wallpaper"
    /\ Len(wallpapers) = 1
    /\ wallpapers[1] = Lights(<<>>)
    /\ applied = 0

\* C3: the classifier is total: Light::from returns a Light for every
\* elevation and azimuth and never reaches its unreachable arm.
C3_ClassifierTotal ==
    pc \in {"classified", "panic"} => (pc = "classified" /\ light \in Light)

Turned(p, turns) == [p EXCEPT !.zenith_angle = @ - Deg(360 * turns)]

\* C4: classification has period 360 degrees: the light of an elevation x is
\* the light of x + 360 and of x - 360 at the same azimuth (stated here for
\* the x whose neighbour is classified at all).
C4_Circular ==
    pc = "classified" =>
        \A turns \in {-1, 1} :
            LightFrom(Turned(pos, turns)) \in Light =>
                light = LightFrom(Turned(pos, turns))

\* the numbers of the sequence read so far, in order
Numbers == SelectSeq(seq_read, LAMBDA t : t.kind = "F64")

LightsRead == SelectSeq(seq_read, LAMBDA t : t.kind = "Light")

RECURSIVE Flatten(_)
Flatten(ss) == IF ss = <<>> THEN <<>> ELSE Head(ss) \o Flatten(Tail(ss))

\* what the 1st with the 2nd, the 3rd with the 4th, ... number push
PairedRanges ==
    [k \in 1..(Len(Numbers) \div 2) |->
        PairRanges(Rem360(Numbers[2 * k - 1].f), Numbers[2 * k].f)]

\* every elevation of a full turn either way, in steps of 0.25 degrees
Probes == Deg(-360)..Deg(360)

UnionIs(ranges, low, high) ==
    \A e \in Probes : AnyContains(ranges, e) <=> (low <= e /\ e < high)

\* C5: once the numbers read are the pair (340, 15), the rising ranges cover
\* exactly the elevations from -20 up to, not including, 15 (no gap at 0) and
\* there is no setting range; once they are the pair (-345, -20), the setting
\* ranges cover exactly the elevations from -20 up to 15 and there is no
\* rising range.
C5_SeamCrossingFold ==
    /\ Numbers = <<TokF(1, 340), TokF(1, 15)>> =>
            /\ UnionIs(visitor.rising_ranges, Deg(-20), Deg(15))
            /\ visitor.setting_ranges = <<>>
    /\ Numbers = <<TokF(-1, 345), TokF(-1, 20)>> =>
            /\ UnionIs(visitor.setting_ranges, Deg(-20), Deg(15))
            /\ visitor.rising_ranges = <<>>

\* the pair (-345, -20) was folded into two setting ranges that meet at 0
C5_Witness ==
    /\ seq_read = <<TokF(-1, 345), TokF(-1, 20)>>
    /\ visitor.setting_ranges = <<Range(0, Deg(15)), Range(Deg(-20), 0)>>

\* C6: pairing depends only on the numbers in their order of appearance.
\* After any sequence of elements, the ranges are those of the 1st number
\* paired with the 2nd, the 3rd with the 4th, and so on; light names are
\* collected and leave the buffered number alone; an unpaired last number
\* stays buffered (reduced modulo 360) and produces no range and no error.
C6_PairingByNumbersOnly ==
    /\ visitor.p1 = IF Len(Numbers) % 2 = 1
                     THEN <<Rem360(Numbers[Len(Numbers)].f)>>
                     ELSE <<>>
    /\ visitor.rising_ranges = Flatten([k \in DOMAIN PairedRanges |-> PairedRanges[k].rising])
    /\ visitor.setting_ranges = Flatten([k \in DOMAIN PairedRanges |-> PairedRanges[k].setting])
    /\ visitor.vec = [k \in DOMAIN LightsRead |-> LightsRead[k].light]
    /\ (pc = "de_error" /\ seq_read # <<>>) => seq_read[Len(seq_read)].kind = "Invalid"

\* [10, "day", 20, 30]: (10, 20) is paired, Day is collected, 30 is buffered
C6_Witness ==
    /\ seq_read = <<TokF(1, 10), TokL("Day"), TokF(1, 20), TokF(1, 30)>>
    /\ visitor.rising_ranges = <<Range(Deg(10), Deg(20))>>
    /\ visitor.vec = <<"Day">>
    /\ visitor.p1 = <<F64(1, 30)>>
    /\ pc = "visit_seq"

\* C7: after the sequence is consumed the variant follows from which of the
\* light set and the range lists (rising or setting) are non-empty, and keeps
\* every range the fold produced.
C7_VariantChoice ==
    pc = "seq_done" =>
        LET has_lights == visitor.vec # <<>>
            has_ranges == visitor.rising_ranges # <<>> \/ visitor.setting_ranges # <<>>
        IN  during =
              IF has_lights /\ has_ranges
              THEN LightsAndElevation(visitor.vec, visitor.rising_ranges,
                                      visitor.setting_ranges)
              ELSE IF has_lights THEN Lights(visitor.vec)
              ELSE IF has_ranges
                   THEN ElevationOf(visitor.rising_ranges, visitor.setting_ranges)
              ELSE Lights(<<>>)

\* the elevation test as the claim states it: a binary split of the azimuth
InHalf(d, elevation, azimuth) ==
    IF azimuth < Deg(180)
    THEN AnyContains(d.rising, elevation)
    ELSE AnyContains(d.setting, elevation)

\* C8: an Elevation condition is satisfied iff the elevation lies in a rising
\* range when azimuth < 180 and in a setting range for every other azimuth;
\* a LightsAndElevation condition iff that holds or the light is in its set.
\* Stated of a list with a single entry, which is selected iff satisfied.
C8_BinaryAzimuthSplit ==
    (pc \in AfterSelect /\ Len(wallpapers) = 1) =>
        /\ wallpapers[1].tag = "Elevation" =>
              (wallpaper = 1 <=> InHalf(wallpapers[1], Elevation(pos), pos.azimuth))
        /\ wallpapers[1].tag = "LightsAndElevation" =>
              (wallpaper = 1 <=>
                  \/ \E k \in 1..Len(wallpapers[1].lights) : wallpapers[1].lights[k] = light
                  \/ InHalf(wallpapers[1], Elevation(pos), pos.azimuth))

\* the re-centering as the claim states it: each value on its own
ShiftEach(rising, x) ==
    IF rising
    THEN (IF x > Deg(180) THEN x - Deg(360) ELSE x)
    ELSE (IF x < Deg(-180) THEN x + Deg(360) ELSE x)

ClaimedPairRanges(first, f) ==
    LET second == Rem360(f)
        rising == Signum(first) = 1
        pushed == Emit(ShiftEach(rising, Val(first)), ShiftEach(rising, Val(second)))
    IN  IF Signum(first) # Signum(second)
        THEN [rising |-> <<>>, setting |-> <<>>]
        ELSE IF rising
             THEN [rising |-> pushed, setting |-> <<>>]
             ELSE [rising |-> <<>>, setting |-> pushed]

ClaimedRanges ==
    [k \in 1..(Len(Numbers) \div 2) |->
        ClaimedPairRanges(Rem360(Numbers[2 * k - 1].f), Numbers[2 * k].f)]

\* C9: the two values of a pair are re-centered independently: in the setting
\* half each value below -180 goes up by 360 and no other value changes, in
\* the rising half each value above 180 goes down by 360; so the ranges are
\* those of the independently shifted values and every endpoint of a range
\* lies within the signed half-circle.
C9_IndependentRecentering ==
    /\ visitor.rising_ranges = Flatten([k \in DOMAIN ClaimedRanges |-> ClaimedRanges[k].rising])
    /\ visitor.setting_ranges = Flatten([k \in DOMAIN ClaimedRanges |-> ClaimedRanges[k].setting])
    /\ \A k \in 1..Len(visitor.setting_ranges) :
          /\ Deg(-180) <= visitor.setting_ranges[k].start
          /\ visitor.setting_ranges[k].start < Deg(180)
          /\ Deg(-180) <= visitor.setting_ranges[k].end
          /\ visitor.setting_ranges[k].end < Deg(180)
    /\ \A k \in 1..Len(visitor.rising_ranges) :
          /\ Deg(-180) < visitor.rising_ranges[k].start
          /\ visitor.rising_ranges[k].start <= Deg(180)
          /\ Deg(-180) < visitor.rising_ranges[k].end
          /\ visitor.rising_ranges[k].end <= Deg(180)

\* the band of an elevation as the claim states it
Band(elevation, azimuth) ==
    LET half(dawn, dusk) == IF azimuth < Deg(180) THEN dawn ELSE dusk
    IN  IF elevation >= -1 THEN "Day"
        ELSE IF elevation >= Deg(-6) THEN half("CivilDawn", "CivilDusk")
        ELSE IF elevation >= Deg(-12) THEN half("NauticalDawn", "NauticalDusk")
        ELSE IF elevation >= Deg(-18) THEN half("AstronomicalDawn", "AstronomicalDusk")
        ELSE "Night"

\* C10: the bands are half-open at -18, -12, -6 and -0.25 degrees and the
\* twilight half follows the azimuth: every classified elevation gets the
\* light of its band ([-18, -12) astronomical, [-12, -6) nautical,
\* [-6, -0.25) civil, each Dawn iff azimuth < 180; -0.25 and above Day, below
\* -18 Night), and an elevation within [-90, 90] is classified and lies in
\* the bounds of exactly one generic light.
C10_HalfOpenBands ==
    pc \in {"classified", "panic"} =>
        /\ pc = "classified" => light = Band(Elevation(pos), pos.azimuth)
        /\ (Deg(-90) <= Elevation(pos) /\ Elevation(pos) <= Deg(90)) =>
              /\ pc = "classified"
              /\ Cardinality({i \in 1..Len(ALL) :
                     AnyContains(altitude_bounds(ALL[i]), Elevation(pos))}) = 1

\* an elevation of exactly -18 degrees in the morning is astronomical dawn
C10_Witness ==
    /\ pc = "classified"
    /\ Elevation(pos) = Deg(-18)
    /\ pos.azimuth < Deg(180)
    /\ light = "AstronomicalDawn"

====
